---- MODULE Spec2Model ----
(***************************************************************************)
(* A model of the population simulations of chapters/chap06.ipynb:         *)
(* run_simulation1, run_simulation2 and the generic run_simulation with    *)
(* its growth functions, run from the notebook's top level on one System   *)
(* object.                                                                 *)
(*                                                                         *)
(* Numbers are rationals <<n, d>> (d > 0, lowest terms).  A System holds   *)
(* either Python floats, modelled as binary floating point with a          *)
(* Precision-bit significand and round-to-nearest-even after every         *)
(* operation, or exact numbers (int, Fraction), where no operation rounds. *)
(***************************************************************************)
EXTENDS Integers, Sequences, FiniteSets, TLC

\* Largest t_end - t_0 of a bundle.
MaxSpan == 3
\* Bits of the significand of a float (53 in CPython, scaled down).
Precision == 4

----------------------------------------------------------------------------
(* Rational arithmetic *)

Abs(n) == IF n < 0 THEN -n ELSE n

RECURSIVE Gcd(_, _)
Gcd(a, b) == IF b = 0 THEN a ELSE Gcd(b, a % b)

Norm(n, d) ==
    LET g == Gcd(Abs(n), d)
    IN  IF n = 0 THEN <<0, 1>> ELSE <<n \div g, d \div g>>

RAdd(x, y) ==
    LET g == Gcd(x[2], y[2])
        l == (x[2] \div g) * y[2]
    IN  Norm(x[1] * (l \div x[2]) + y[1] * (l \div y[2]), l)

RNeg(x) == <<-x[1], x[2]>>

RSub(x, y) == RAdd(x, RNeg(y))

RMul(x, y) ==
    LET a == Norm(x[1], y[2])
        b == Norm(y[1], x[2])
    IN  Norm(a[1] * b[1], a[2] * b[2])

RECURSIVE RPow(_, _)
RPow(x, k) == IF k = 0 THEN <<1, 1>> ELSE RMul(x, RPow(x, k - 1))

FromInt(k) == <<k, 1>>

RECURSIVE Pow2(_)
Pow2(k) == IF k = 0 THEN 1 ELSE 2 * Pow2(k - 1)

(* Binary floating point: the float nearest to the rational x, ties to the *)
(* even significand.  Scale(n, d, e) shifts n/d into [2^(P-1), 2^P).       *)
RECURSIVE Scale(_, _, _)
Scale(n, d, e) ==
    IF n >= d * Pow2(Precision) THEN Scale(n, 2 * d, e + 1)
    ELSE IF n < d * Pow2(Precision - 1) THEN Scale(2 * n, d, e - 1)
    ELSE <<n, d, e>>

HalfEven(n, d) ==
    LET q == n \div d
        r == n % d
    IN  IF 2 * r < d THEN q
        ELSE IF 2 * r > d THEN q + 1
        ELSE IF q % 2 = 0 THEN q ELSE q + 1

Fl(x) ==
    IF x[1] = 0 THEN <<0, 1>>
    ELSE LET s == Scale(Abs(x[1]), x[2], 0)
             m == HalfEven(s[1], s[2])
             v == IF s[3] >= 0 THEN <<m * Pow2(s[3]), 1>>
                  ELSE Norm(m, Pow2(-s[3]))
         IN  IF x[1] < 0 THEN RNeg(v) ELSE v

----------------------------------------------------------------------------
VARIABLES
    numeric,       \* "float" or "exact": the number type of the bundle's values
    system,        \* the System object: field name -> value, absent fields absent
    pc,            \* "idle" (notebook top level), "loop" (in a run), "returned"
    runner,        \* the simulation function being run, "none" when idle
    growth_func,   \* the growth function passed to run_simulation, else "none"
    results,       \* the run's local `results`: a heap id, 0 when idle
    it,            \* the for loop's iterator: the indices of range() still to come
    heap,          \* the live TimeSeries objects: id -> sequence of <<label, value>>
    prev,          \* the last finished call: its inputs and its outcome
    call_sys,      \* the bundle as it was when the current run was called
    invocations,   \* the growth function's calls in the current run: <<t, pop>>
    writes,        \* the labels assigned in the current run's series, in order
    threads        \* runs of run_simulation made side by side by a caller: one
                   \* frame each, <<>> when the notebook runs its cells alone

vars == <<numeric, system, pc, runner, growth_func, results, it, heap, prev,
          call_sys, invocations, writes, threads>>

(* Python arithmetic on the numbers of a System: a float operation rounds  *)
(* its exact result, an exact one does not.                                *)
Round(x) == IF numeric = "float" THEN Fl(x) ELSE x

Add(x, y) == Round(RAdd(x, y))

Sub(x, y) == Round(RSub(x, y))

Mul(x, y) == Round(RMul(x, y))

----------------------------------------------------------------------------
(* TimeSeries: labelled values in insertion order *)

Labels(series) == [i \in 1..Len(series) |-> series[i][1]]

HasLabel(series, k) == \E i \in 1..Len(series) : series[i][1] = k

GetItem(series, k) ==
    series[CHOOSE i \in 1..Len(series) : series[i][1] = k][2]

\* series[k] = v: overwrites the entry labelled k, or appends a new one.
SetItem(series, k, v) ==
    IF HasLabel(series, k)
    THEN [i \in 1..Len(series) |->
             IF series[i][1] = k THEN <<k, v>> ELSE series[i]]
    ELSE Append(series, <<k, v>>)

\* Mutant of NewSeries: the series of the call before is used again.
NewSeries_Reuse == IF prev.result # 0 THEN prev.result ELSE 1

\* TimeSeries(): a new object, distinct from every live one.
NewSeries == CHOOSE i \in 1..(Cardinality(DOMAIN heap) + 1) :
                 /\ i \notin DOMAIN heap
                 /\ \A j \in 1..(i - 1) : j \in DOMAIN heap

\* Mutant of Range: the end index is included.
Range_Inclusive(a, b) == [i \in 1..(IF b >= a THEN b - a + 1 ELSE 0) |-> a + i - 1]

\* range(a, b): a, a+1, ..., b-1; empty when b <= a.
Range(a, b) == [i \in 1..(IF b > a THEN b - a ELSE 0) |-> a + i - 1]

----------------------------------------------------------------------------
(* The growth functions and the loop bodies *)

Has(sys, fields) == fields \subseteq DOMAIN sys

\* Mutant of growth_func1: deaths are added.
growth_func1_Plus(tt, pop, sys) ==
    LET births == Mul(sys.birth_rate, pop)
        deaths == Mul(sys.death_rate, pop)
    IN  Add(births, deaths)

growth_func1(tt, pop, sys) ==
    LET births == Mul(sys.birth_rate, pop)
        deaths == Mul(sys.death_rate, pop)
    IN  Sub(births, deaths)

\* Mutant of growth_func2: the rate is not applied to the population.
growth_func2_NoPop(tt, pop, sys) == sys.alpha

growth_func2(tt, pop, sys) == Mul(sys.alpha, pop)

\* The constant-growth function: growth_fn(t, pop, b) = b.rate.
growth_const(tt, pop, sys) == sys.annual_growth

GrowthFuncs == {"growth_func1", "growth_func2", "growth_const"}

\* The fields of the bundle a growth function reads.
GrowthReads(f) ==
    CASE f = "growth_func1" -> {"birth_rate", "death_rate"}
      [] f = "growth_func2" -> {"alpha"}
      [] f = "growth_const" -> {"annual_growth"}

CallGrowth(f, tt, pop, sys) ==
    CASE f = "growth_func1" -> growth_func1(tt, pop, sys)
      [] f = "growth_func2" -> growth_func2(tt, pop, sys)
      [] f = "growth_const" -> growth_const(tt, pop, sys)

\* Mutant of GrowthEffect: the growth function stores into the bundle.
GrowthEffect_Writes(f, sys) ==
    [g \in DOMAIN sys |-> IF g = "t_end" THEN sys.t_end + 1 ELSE sys[g]]

\* What a growth function leaves of the bundle: it only reads it.
GrowthEffect(f, sys) == sys

\* Mutant of Body1: the growth is added twice.
Body1_Twice(pop, sys) == Add(Add(pop, sys.annual_growth), sys.annual_growth)

\* results[t] + system.annual_growth
Body1(pop, sys) == Add(pop, sys.annual_growth)

\* results[t] + births - deaths
Body2(pop, sys) ==
    LET births == Mul(sys.birth_rate, pop)
        deaths == Mul(sys.death_rate, pop)
    IN  Sub(Add(pop, births), deaths)

\* Mutant of Current: the growth function is always given the initial value.
Current_Initial(series, tt) == series[1][2]

\* results[t]: the value the loop body reads at index tt.
Current(series, tt) == GetItem(series, tt)

\* Mutant of Body: the current value is not carried over.
Body_NoCarry(pop, growth) == growth

\* results[t] + growth
Body(pop, growth) == Add(pop, growth)

\* Mutant of Target: the loop body assigns results[t].
Target_Same(tt) == tt

\* The label the loop body assigns at index tt.
Target(tt) == tt + 1

Runners == {"run_simulation1", "run_simulation2", "run_simulation"}

\* The fields one iteration of a runner's loop reads.
StepReads(r, f) ==
    CASE r = "run_simulation1" -> {"annual_growth"}
      [] r = "run_simulation2" -> {"birth_rate", "death_rate"}
      [] r = "run_simulation"  -> GrowthReads(f)

StepValue(r, f, tt, pop, sys) ==
    CASE r = "run_simulation1" -> Body1(pop, sys)
      [] r = "run_simulation2" -> Body2(pop, sys)
      [] r = "run_simulation"  -> Body(pop, CallGrowth(f, tt, pop, sys))

\* The fields every runner reads before its first iteration.
SetupReads == {"t_0", "p_0", "t_end"}

\* Mutant of SetupOk: a range whose end precedes its start is refused.
SetupOk_RangeChecked(sys) ==
    Has(sys, SetupReads) /\ sys.t_end >= sys.t_0

\* Whether the statements before the loop find the fields they read.
SetupOk(sys) == Has(sys, SetupReads)

\* Whether an iteration of the loop finds the fields it reads.
StepOk(r, f, sys) == Has(sys, StepReads(r, f))

\* results = TimeSeries(); results[system.t_0] = system.p_0
FirstSeries(sys) == SetItem(<<>>, sys.t_0, sys.p_0)

----------------------------------------------------------------------------
(* The bundles the notebook may build *)

Starts == {1950, 1951}

Populations == {<<5, 2>>, <<3, 1>>}

Growths == {<<1, 10>>}

Alphas == {<<1, 50>>}

\* <<birth_rate, death_rate>>
RatePairs == {<<<<1, 4>>, <<1, 8>>>>, <<<<1, 10>>, <<1, 50>>>>}

\* A literal of the notebook as a number of kind k.
Literal(k, x) == IF k = "float" THEN Fl(x) ELSE x

SetAttrs(sys, new) ==
    [f \in DOMAIN sys \cup DOMAIN new |->
        IF f \in DOMAIN new THEN new[f] ELSE sys[f]]

Without(sys, f) == [g \in DOMAIN sys \ {f} |-> sys[g]]

NoSystem == [f \in {} |-> 0]

\* System(t_0=..., t_end=..., p_0=..., annual_growth=...), with alpha or not.
FullBundles(k) ==
    LET base == {[t_0 |-> s, t_end |-> e, p_0 |-> Literal(k, p),
                  annual_growth |-> Literal(k, g)] :
                     s \in Starts, e \in (1948..(1951 + MaxSpan)),
                     p \in Populations, g \in Growths}
        ok == {b \in base : b.t_end - b.t_0 \in (-2)..MaxSpan}
    IN  ok \cup {SetAttrs(b, [alpha |-> Literal(k, a)]) : b \in ok, a \in Alphas}

\* The same with one of the four fields left out.
Bundles(k) ==
    FullBundles(k) \cup
    {Without(b, f) : b \in {c \in FullBundles(k) : "alpha" \notin DOMAIN c},
                     f \in {"t_0", "t_end", "p_0", "annual_growth"}}

NoCall == [runner |-> "none", growth_func |-> "none", sys |-> NoSystem,
           outcome |-> "none", result |-> 0, after |-> "none"]

Init ==
    /\ numeric \in {"float", "exact"}
    /\ system \in Bundles(numeric)
    /\ pc = "idle"
    /\ runner = "none"
    /\ growth_func = "none"
    /\ results = 0
    /\ it = <<>>
    /\ heap = [i \in {} |-> <<>>]
    /\ prev = NoCall
    /\ call_sys = NoSystem
    /\ invocations = <<>>
    /\ writes = <<>>
    /\ threads = <<>>

----------------------------------------------------------------------------
(* The notebook's statements *)

Only(ids) == [i \in (DOMAIN heap) \cap ids |-> heap[i]]

\* Mutant of Raise: the error hands the run's unfinished series to the caller.
Raise_Partial(r, f, sys) ==
    /\ pc' = "idle"
    /\ runner' = "none"
    /\ growth_func' = "none"
    /\ results' = 0
    /\ it' = <<>>
    /\ heap' = Only({results})
    /\ prev' = [runner |-> r, growth_func |-> f, sys |-> sys,
                outcome |-> "AttributeError", result |-> results,
                after |-> prev.outcome]
    /\ call_sys' = NoSystem
    /\ invocations' = <<>>
    /\ writes' = <<>>
    /\ UNCHANGED <<numeric, system, threads>>

\* An AttributeError leaves the run: nothing is returned, the run's series is
\* dropped, and the notebook is back at its top level.
Raise(r, f, sys) ==
    /\ pc' = "idle"
    /\ runner' = "none"
    /\ growth_func' = "none"
    /\ results' = 0
    /\ it' = <<>>
    /\ heap' = Only({})
    /\ prev' = [runner |-> r, growth_func |-> f, sys |-> sys,
                outcome |-> "AttributeError", result |-> 0,
                after |-> prev.outcome]
    /\ call_sys' = NoSystem
    /\ invocations' = <<>>
    /\ writes' = <<>>
    /\ UNCHANGED <<numeric, system, threads>>

\* system.death_rate = ...; system.birth_rate = ...
SetRates ==
    /\ pc = "idle"
    /\ "birth_rate" \notin DOMAIN system
    /\ \E pair \in RatePairs :
          system' = SetAttrs(system, [birth_rate |-> Literal(numeric, pair[1]),
                                      death_rate |-> Literal(numeric, pair[2])])
    /\ UNCHANGED <<numeric, pc, runner, growth_func, results, it, heap, prev,
                   call_sys, invocations, writes, threads>>

\* system.alpha = system.birth_rate - system.death_rate
SetAlpha ==
    /\ pc = "idle"
    /\ Has(system, {"birth_rate", "death_rate"})
    /\ system' = SetAttrs(system,
                     [alpha |-> Sub(system.birth_rate, system.death_rate)])
    /\ system' # system
    /\ UNCHANGED <<numeric, pc, runner, growth_func, results, it, heap, prev,
                   call_sys, invocations, writes, threads>>

\* The call of a simulation function, up to the start of its loop.
Call ==
    /\ pc = "idle"
    /\ \E r \in Runners :
       \E f \in (IF r = "run_simulation" THEN GrowthFuncs ELSE {"none"}) :
          IF SetupOk(system)
          THEN /\ pc' = "loop"
               /\ runner' = r
               /\ growth_func' = f
               /\ results' = NewSeries
               /\ heap' = [i \in DOMAIN heap \cup {NewSeries} |->
                              IF i = NewSeries THEN FirstSeries(system)
                              ELSE heap[i]]
               /\ it' = Range(system.t_0, system.t_end)
               /\ call_sys' = system
               /\ invocations' = <<>>
               /\ writes' = <<system.t_0>>
               /\ UNCHANGED <<numeric, system, prev, threads>>
          ELSE Raise(r, f, system)

\* One iteration of the loop.
Step ==
    /\ pc = "loop"
    /\ it # <<>>
    /\ LET tt == Head(it)
           pop == Current(heap[results], tt)
       IN  IF StepOk(runner, growth_func, system)
           THEN /\ heap' = [heap EXCEPT ![results] =
                              SetItem(@, Target(tt),
                                  StepValue(runner, growth_func, tt, pop, system))]
                /\ it' = Tail(it)
                /\ invocations' = IF runner = "run_simulation"
                                  THEN Append(invocations, <<tt, pop>>)
                                  ELSE invocations
                /\ writes' = Append(writes, Target(tt))
                /\ system' = GrowthEffect(growth_func, system)
                /\ UNCHANGED <<numeric, pc, runner, growth_func, results, prev,
                               call_sys, threads>>
           ELSE Raise(runner, growth_func, call_sys)

\* return results
Return ==
    /\ pc = "loop"
    /\ it = <<>>
    /\ pc' = "returned"
    /\ UNCHANGED <<numeric, system, runner, growth_func, results, it, heap,
                   prev, call_sys, invocations, writes, threads>>

\* results = run_simulation(...): the notebook binds the returned series; the
\* series of the call before is no longer referenced.
Assign ==
    /\ pc = "returned"
    /\ pc' = "idle"
    /\ prev' = [runner |-> runner, growth_func |-> growth_func,
                sys |-> call_sys, outcome |-> "returned", result |-> results,
                after |-> prev.outcome]
    /\ heap' = Only({results})
    /\ runner' = "none"
    /\ growth_func' = "none"
    /\ results' = 0
    /\ call_sys' = NoSystem
    /\ invocations' = <<>>
    /\ writes' = <<>>
    /\ UNCHANGED <<numeric, system, it, threads>>

Next == SetRates \/ SetAlpha \/ Call \/ Step \/ Return \/ Assign

Spec == Init /\ [][Next]_vars

----------------------------------------------------------------------------
(* Two runs of run_simulation made side by side, each on a bundle of its   *)
(* own, their loop iterations interleaved in any order.                    *)

Threads == {1, 2}

\* The bundles of the runs made side by side: all four fields and alpha.
ParBundles(k) == {b \in FullBundles(k) : "alpha" \in DOMAIN b}

InitPar ==
    /\ numeric \in {"float", "exact"}
    /\ threads \in [Threads ->
          [pc : {"start"}, system : ParBundles(numeric),
           growth_func : GrowthFuncs, results : {0}, it : {<<>>},
           invocations : {<<>>}]]
    /\ system = NoSystem
    /\ pc = "idle"
    /\ runner = "none"
    /\ growth_func = "none"
    /\ results = 0
    /\ it = <<>>
    /\ heap = [i \in {} |-> <<>>]
    /\ prev = NoCall
    /\ call_sys = NoSystem
    /\ invocations = <<>>
    /\ writes = <<>>

\* Mutant of BundleOf: the body reads one global bundle, not its parameter.
BundleOf_Global(th) == threads[1].system

\* The parameter `system` of thread th's call.
BundleOf(th) == threads[th].system

Sequential == <<numeric, system, pc, runner, growth_func, results, it, prev,
                call_sys, invocations, writes>>

\* Thread th calls run_simulation, up to the start of the loop.
ParCall(th) ==
    /\ threads[th].pc = "start"
    /\ LET sys == BundleOf(th)
       IN  IF SetupOk(sys)
           THEN /\ threads' = [threads EXCEPT ![th] =
                      [@ EXCEPT !.pc = "loop", !.results = NewSeries,
                                !.it = Range(sys.t_0, sys.t_end)]]
                /\ heap' = [i \in DOMAIN heap \cup {NewSeries} |->
                               IF i = NewSeries THEN FirstSeries(sys)
                               ELSE heap[i]]
           ELSE /\ threads' = [threads EXCEPT ![th].pc = "raised"]
                /\ heap' = heap
    /\ UNCHANGED Sequential

\* One iteration of thread th's loop.
ParStep(th) ==
    /\ threads[th].pc = "loop"
    /\ threads[th].it # <<>>
    /\ LET fr == threads[th]
           sys == BundleOf(th)
           tt == Head(fr.it)
           pop == Current(heap[fr.results], tt)
       IN  IF StepOk("run_simulation", fr.growth_func, sys)
           THEN /\ heap' = [heap EXCEPT ![fr.results] =
                      SetItem(@, Target(tt),
                          Body(pop, CallGrowth(fr.growth_func, tt, pop, sys)))]
                /\ threads' = [threads EXCEPT ![th] =
                      [@ EXCEPT !.it = Tail(fr.it),
                                !.invocations = Append(@, <<tt, pop>>)]]
           ELSE /\ heap' = [i \in DOMAIN heap \ {fr.results} |-> heap[i]]
                /\ threads' = [threads EXCEPT ![th] =
                      [@ EXCEPT !.pc = "raised", !.results = 0, !.it = <<>>]]
    /\ UNCHANGED Sequential

\* return results, in thread th.
ParReturn(th) ==
    /\ threads[th].pc = "loop"
    /\ threads[th].it = <<>>
    /\ threads' = [threads EXCEPT ![th].pc = "returned"]
    /\ UNCHANGED <<heap, Sequential>>

NextPar == \E th \in Threads : ParCall(th) \/ ParStep(th) \/ ParReturn(th)

SpecPar == InitPar /\ [][NextPar]_vars

----------------------------------------------------------------------------
(* Properties *)

\* A run of run_simulation that has reached its return statement.
Finished == pc = "returned" /\ runner = "run_simulation"

Span(sys) == sys.t_end - sys.t_0

\* C1: in the series run_simulation returns for a bundle with end >= start,
\* series[i+1] = series[i] + growth_fn(i, series[i], bundle) for every index i
\* from start to end - 1.
C1_StepRelation ==
    (Finished /\ Span(call_sys) >= 0) =>
        LET series == heap[results]
        IN  \A i \in call_sys.t_0..(call_sys.t_end - 1) :
               /\ HasLabel(series, i)
               /\ HasLabel(series, i + 1)
               /\ GetItem(series, i + 1) =
                     Round(RAdd(GetItem(series, i),
                                CallGrowth(growth_func, i, GetItem(series, i),
                                           call_sys)))

C1_Witness ==
    Finished /\ Span(call_sys) >= 2 /\ growth_func = "growth_func2"

\* C2 as claimed: a call of run_simulation on a bundle whose end precedes its
\* start ends with an InvalidRange error and returns no series.
C2_InvalidRange ==
    /\ ~(Finished /\ Span(call_sys) < 0)
    /\ (/\ prev.runner = "run_simulation"
        /\ Has(prev.sys, SetupReads)
        /\ Span(prev.sys) < 0) =>
           (prev.outcome = "InvalidRange" /\ prev.result = 0)

\* C2 amended: a call of run_simulation on a bundle whose end precedes its
\* start raises no error: the growth function is never called and the call
\* returns the one-entry series {start: initial}.
C2_EmptyRange ==
    /\ (Finished /\ Span(call_sys) < 0) =>
          /\ heap[results] = <<<<call_sys.t_0, call_sys.p_0>>>>
          /\ invocations = <<>>
    /\ (/\ prev.runner = "run_simulation"
        /\ Has(prev.sys, SetupReads)
        /\ Span(prev.sys) < 0) =>
           /\ prev.outcome = "returned"
           /\ heap[prev.result] = <<<<prev.sys.t_0, prev.sys.p_0>>>>

C2_Witness ==
    /\ pc = "idle"
    /\ prev.runner = "run_simulation"
    /\ prev.outcome = "returned"
    /\ Span(prev.sys) < 0

\* C3: for end >= start the series run_simulation returns has end - start + 1
\* entries, labelled start, start + 1, ..., end, one entry per label; when
\* start = end it is the single entry holding the initial value.
C3_Labels ==
    (Finished /\ Span(call_sys) >= 0) =>
        LET series == heap[results]
        IN  /\ Len(series) = Span(call_sys) + 1
            /\ Labels(series) =
                  [i \in 1..(Span(call_sys) + 1) |-> call_sys.t_0 + i - 1]
            /\ Span(call_sys) = 0 =>
                  series = <<<<call_sys.t_0, call_sys.p_0>>>>

C3_Witness ==
    Finished /\ Span(call_sys) = MaxSpan /\ Len(heap[results]) = MaxSpan + 1

\* C4: throughout a run of run_simulation and at its return, the entry at the
\* start index holds the bundle's initial value, and that label has been
\* assigned exactly once.
C4_StartValue ==
    (pc \in {"loop", "returned"} /\ runner = "run_simulation") =>
        /\ GetItem(heap[results], call_sys.t_0) = call_sys.p_0
        /\ Cardinality({i \in 1..Len(writes) : writes[i] = call_sys.t_0}) = 1

C4_Witness ==
    Finished /\ Len(writes) >= 3 /\ growth_func = "growth_func1"

\* The series a call computes from its inputs alone.
RECURSIVE Accumulate(_, _, _, _, _)
Accumulate(r, f, sys, series, tt) ==
    IF tt >= sys.t_end THEN series
    ELSE Accumulate(r, f, sys,
             SetItem(series, tt + 1,
                     StepValue(r, f, tt, GetItem(series, tt), sys)),
             tt + 1)

Alone(r, f, sys) == Accumulate(r, f, sys, <<<<sys.t_0, sys.p_0>>>>, sys.t_0)

\* The fields a call of run_simulation with growth function f reads.
FieldsRead(f, sys) ==
    SetupReads \cup
    (IF Has(sys, SetupReads) /\ sys.t_end > sys.t_0 THEN GrowthReads(f) ELSE {})

\* C5: a call of run_simulation fails with the missing-attribute error exactly
\* when it or its growth function reads an absent field; the error comes at the
\* first such read, no series, partial or complete, reaches the caller, and a
\* later run returns the series its bundle alone determines.
C5_MissingParameter ==
    /\ (prev.runner = "run_simulation" /\ prev.outcome # "none") =>
          (prev.outcome = "AttributeError"
              <=> ~Has(prev.sys, FieldsRead(prev.growth_func, prev.sys)))
    /\ prev.outcome = "AttributeError" =>
          (prev.result = 0 /\ (pc = "idle" => DOMAIN heap = {}))
    /\ (/\ pc = "loop"
        /\ runner = "run_simulation"
        /\ ~Has(system, GrowthReads(growth_func))) =>
           heap[results] = <<<<call_sys.t_0, call_sys.p_0>>>>
    /\ (Finished /\ prev.outcome = "AttributeError") =>
          heap[results] = Alone("run_simulation", growth_func, call_sys)

C5_Witness ==
    /\ Finished
    /\ Span(call_sys) >= 2
    /\ prev.outcome = "AttributeError"
    /\ prev.runner = "run_simulation"
    /\ prev.growth_func = growth_func
    /\ Has(prev.sys, SetupReads)

\* The run at its return and the call before it, on the same bundle.
Twin(r1, f1, r2, f2) ==
    /\ pc = "returned"
    /\ prev.outcome = "returned"
    /\ prev.sys = call_sys
    /\ prev.runner = r1 /\ prev.growth_func = f1
    /\ runner = r2 /\ growth_func = f2

ConstantTwins ==
    \/ Twin("run_simulation1", "none", "run_simulation", "growth_const")
    \/ Twin("run_simulation", "growth_const", "run_simulation1", "none")

\* p0 + k * rate, as Python evaluates it on the bundle's numbers.
ClosedForm(sys, k) == Add(sys.p_0, Mul(FromInt(k), sys.annual_growth))

\* p0 + k * rate, exactly.
ClosedFormExact(sys, k) == RAdd(sys.p_0, RMul(FromInt(k), sys.annual_growth))

\* C6 as claimed: with the constant growth function the series run_simulation
\* returns has series[s+k] = p0 + k * rate for every k, and run_simulation1
\* returns the same series.
C6_ClosedForm ==
    /\ (/\ Finished /\ growth_func = "growth_const"
        /\ Has(call_sys, {"annual_growth"})) =>
          \A k \in 0..Span(call_sys) :
             \/ GetItem(heap[results], call_sys.t_0 + k) = ClosedForm(call_sys, k)
             \/ GetItem(heap[results], call_sys.t_0 + k) = ClosedFormExact(call_sys, k)
    /\ ConstantTwins => heap[results] = heap[prev.result]

\* C6 amended: series[s+k] = p0 + k * rate holds when the bundle's numbers are
\* exact; with floats each addition rounds and only the step relation holds.
\* In both cases run_simulation1 returns the same series as run_simulation
\* with the constant growth function.
C6_ClosedFormExact ==
    /\ (/\ Finished /\ growth_func = "growth_const" /\ numeric = "exact"
        /\ Has(call_sys, {"annual_growth"})) =>
          \A k \in 0..Span(call_sys) :
             GetItem(heap[results], call_sys.t_0 + k) = ClosedFormExact(call_sys, k)
    /\ ConstantTwins => heap[results] = heap[prev.result]

C6_Witness ==
    /\ Twin("run_simulation1", "none", "run_simulation", "growth_const")
    /\ numeric = "exact"
    /\ Span(call_sys) >= 2

\* The bundle of the example: start 1950, end 1953, initial 2.5, alpha 0.02.
IsExample(sys) ==
    /\ Has(sys, {"alpha"})
    /\ sys.t_0 = 1950 /\ sys.t_end = 1953
    /\ sys.p_0 = <<5, 2>> /\ sys.alpha = <<1, 50>>

\* C7: in exact arithmetic, with growth_func2 the series run_simulation returns
\* has series[s+k] = p0 * (1 + alpha)^k for every k from 0 to e - s; the
\* example bundle gives 2.5, 2.55, 2.601, 2.65302.
C7_Geometric ==
    (/\ Finished /\ growth_func = "growth_func2" /\ numeric = "exact"
     /\ Has(call_sys, {"alpha"})) =>
        /\ \A k \in 0..Span(call_sys) :
              GetItem(heap[results], call_sys.t_0 + k) =
                 RMul(call_sys.p_0, RPow(RAdd(<<1, 1>>, call_sys.alpha), k))
        /\ IsExample(call_sys) =>
              heap[results] = << <<1950, <<5, 2>>>>, <<1951, <<51, 20>>>>,
                                 <<1952, <<2601, 1000>>>>,
                                 <<1953, <<132651, 50000>>>> >>

C7_Witness ==
    /\ Finished /\ growth_func = "growth_func2" /\ numeric = "exact"
    /\ IsExample(call_sys)

\* The three formulations of the proportional model.
Proportional == {<<"run_simulation2", "none">>,
                 <<"run_simulation", "growth_func1">>,
                 <<"run_simulation", "growth_func2">>}

\* Two of the three formulations run one after the other on one bundle whose
\* alpha is birth_rate - death_rate.
ProportionalTwins ==
    /\ pc = "returned"
    /\ prev.outcome = "returned"
    /\ prev.sys = call_sys
    /\ <<prev.runner, prev.growth_func>> \in Proportional
    /\ <<runner, growth_func>> \in Proportional
    /\ Has(call_sys, {"alpha", "birth_rate", "death_rate"})
    /\ call_sys.alpha = Sub(call_sys.birth_rate, call_sys.death_rate)

C9_Idempotent ==
    \A f \in GrowthFuncs :
        Twin("run_simulation", f, "run_simulation", f) =>
            /\ results # prev.result
            /\ heap[results] = heap[prev.result]
            /\ heap[results] = Alone("run_simulation", f, call_sys)

C9_Witness ==
    /\ Twin("run_simulation", "growth_func1", "run_simulation", "growth_func1")
    /\ Span(call_sys) >= 2

\* C10: from the call of run_simulation to its return the bundle keeps every
\* field and value it had at the call.
C10_BundleUnchanged ==
    (pc \in {"loop", "returned"} /\ runner = "run_simulation") =>
        system = call_sys

C10_Witness ==
    Finished /\ Len(invocations) >= 2

\* C12: a run of run_simulation with end >= start begins with the series
\* {start: initial} and no call of the growth function; its calls are at start,
\* start + 1, ... in increasing order, each with the value the step before
\* stored for that index, never at end; calls made plus indices still to come
\* is always end - start, so the run returns after exactly end - start calls,
\* none when start = end, with the entry for end last in the series.
C12_Invocations ==
    (/\ pc \in {"loop", "returned"}
     /\ runner = "run_simulation"
     /\ Span(call_sys) >= 0) =>
        LET n == Len(invocations)
            series == heap[results]
        IN  /\ n + Len(it) = Span(call_sys)
            /\ Len(series) = n + 1
            /\ n = 0 => series = <<<<call_sys.t_0, call_sys.p_0>>>>
            /\ \A j \in 1..n :
                  /\ invocations[j][1] = call_sys.t_0 + j - 1
                  /\ invocations[j][1] < call_sys.t_end
                  /\ invocations[j][1] = writes[j]
                  /\ series[j][1] = writes[j]
                  /\ invocations[j][2] = series[j][2]
            /\ pc = "returned" =>
                  /\ n = Span(call_sys)
                  /\ series[n + 1][1] = call_sys.t_end

C12_Witness ==
    Finished /\ Len(invocations) = MaxSpan /\ growth_func = "growth_func2"

\* Whether a run on this bundle fails at its first iteration.
Fails(f, sys) == Span(sys) > 0 /\ ~Has(sys, GrowthReads(f))

\* The state of thread th's run is the state of that run made alone, after
\* as many iterations as the thread has made.
AsAlone(th) ==
    LET fr == threads[th]
        n == Len(fr.invocations)
    IN  IF Fails(fr.growth_func, fr.system)
        THEN /\ fr.pc # "returned"
             /\ fr.pc = "loop" =>
                   heap[fr.results] = <<<<fr.system.t_0, fr.system.p_0>>>>
        ELSE LET alone == Alone("run_simulation", fr.growth_func, fr.system)
             IN  /\ fr.pc # "raised"
                 /\ fr.pc \in {"loop", "returned"} =>
                       /\ fr.results \in DOMAIN heap
                       /\ heap[fr.results] = SubSeq(alone, 1, n + 1)
                       /\ fr.it = SubSeq(Range(fr.system.t_0, fr.system.t_end),
                                         n + 1, Len(alone) - 1)
                 /\ fr.pc = "returned" => heap[fr.results] = alone

\* C11: with the loop steps of two runs of run_simulation on separate bundles
\* interleaved in any order, each run's series is at every moment the one the
\* run made alone has after as many steps, and the series each returns is the
\* one it returns alone; the two series are different objects.
C11_Interleaved ==
    /\ \A th \in Threads : AsAlone(th)
    /\ (\A th \in Threads : threads[th].pc \in {"loop", "returned"}) =>
          threads[1].results # threads[2].results

C11_Witness ==
    /\ \A th \in Threads :
          /\ threads[th].pc = "returned"
          /\ Len(threads[th].invocations) >= 2
    /\ threads[1].system # threads[2].system
    /\ threads[1].growth_func # threads[2].growth_func
    /\ heap[threads[1].results] # heap[threads[2].results]

====
